---- MODULE Spec2Model ----
(***************************************************************************)
(* Explainr (src/main.py): the follow-up conversation kept in the Flask    *)
(* session, the completion call with its retries, and the request handler  *)
(* explain().                                                              *)
(*                                                                         *)
(* A Python str is modelled as a sequence of one-character strings, so     *)
(* that strip(), startswith(), re.sub() and split() are computed character *)
(* by character as the code computes them.                                 *)
(***************************************************************************)
EXTENDS Integers, Sequences, FiniteSets, TLC

(***************************************************************************)
(* Configuration (class Config)                                            *)
(***************************************************************************)
MAX_TOPIC_LENGTH == 200

MAX_RETRIES == 3

(***************************************************************************)
(* Bounds of the model                                                     *)
(***************************************************************************)
\* make_openai_request is explored for max_retries in 0..MaxRetriesArg
MaxRetriesArg == 4

\* a behaviour of Spec stores at most MaxStored exchanges over all sessions
MaxStored == 2

\* SpecDeep: a conversation holds at most MaxDeep exchanges
MaxDeep == 3

\* SpecConcurrent: a client has at most MaxInFlight requests without response
MaxInFlight == 2

(***************************************************************************)
(* str helpers                                                             *)
(***************************************************************************)
\* the characters str.strip() removes (no other whitespace occurs in the model)
Whitespace == {" ", "\n", "\t"}

Min(S) == CHOOSE x \in S : \A y \in S : x <= y

Max(S) == CHOOSE x \in S : \A y \in S : x >= y

\* str.strip(): from the first to the last character that is no whitespace
strip(s) ==
  LET kept == {i \in 1..Len(s) : s[i] \notin Whitespace} IN
  IF kept = {} THEN <<>> ELSE SubSeq(s, Min(kept), Max(kept))

\* str.startswith(prefix)
startswith(s, prefix) ==
  /\ Len(s) >= Len(prefix)
  /\ SubSeq(s, 1, Len(prefix)) = prefix

\* str.split('\n'): the pieces between newlines, empty pieces included
RECURSIVE split_lines(_)
split_lines(s) ==
  LET nl == {i \in 1..Len(s) : s[i] = "\n"} IN
  IF nl = {} THEN <<s>>
  ELSE LET i == Min(nl) IN
       <<SubSeq(s, 1, i - 1)>> \o split_lines(SubSeq(s, i + 1, Len(s)))

\* the first n elements of a list: list[:n]
first_n(list, n) == SubSeq(list, 1, IF Len(list) < n THEN Len(list) ELSE n)

\* where a match of \*\*(.*?)\*\* that starts at i can end: the positions j of
\* a closing "**" with no newline between the two
bold_closers(s, i) ==
  {j \in (i + 2)..(Len(s) - 1) :
     /\ s[j] = "*"
     /\ s[j + 1] = "*"
     /\ \A k \in (i + 2)..(j - 1) : s[k] # "\n"}

\* re.sub(r'\*\*(.*?)\*\*', r'\1', s): the leftmost match is replaced by its
\* group, the lazy group being the shortest one, and the rest is searched on
RECURSIVE sub_bold(_)
sub_bold(s) ==
  LET opens == {i \in 1..(Len(s) - 3) :
                  s[i] = "*" /\ s[i + 1] = "*" /\ bold_closers(s, i) # {}} IN
  IF opens = {} THEN s
  ELSE LET i == Min(opens)
           j == Min(bold_closers(s, i)) IN
       SubSeq(s, 1, i - 1) \o SubSeq(s, i + 2, j - 1)
         \o sub_bold(SubSeq(s, j + 2, Len(s)))

\* the same for \*(.*?)\*
italic_closers(s, i) ==
  {j \in (i + 1)..Len(s) :
     /\ s[j] = "*"
     /\ \A k \in (i + 1)..(j - 1) : s[k] # "\n"}

\* re.sub(r'\*(.*?)\*', r'\1', s)
RECURSIVE sub_italic(_)
sub_italic(s) ==
  LET opens == {i \in 1..(Len(s) - 1) :
                  s[i] = "*" /\ italic_closers(s, i) # {}} IN
  IF opens = {} THEN s
  ELSE LET i == Min(opens)
           j == Min(italic_closers(s, i)) IN
       SubSeq(s, 1, i - 1) \o SubSeq(s, i + 1, j - 1)
         \o sub_italic(SubSeq(s, j + 1, Len(s)))

(***************************************************************************)
(* sanitize_input (main.py:111-124)                                        *)
(***************************************************************************)
\* the character class [<>"\'] of line 117
HarmfulChars == {"<", ">", "\"", "'"}

\* sanitize_input without the length limit of lines 121-122
sanitize_input_unbounded(text) ==
  IF text = <<>> THEN <<>>
  ELSE strip(SelectSeq(text, LAMBDA c : c \notin HarmfulChars))

sanitize_input(text) ==
  IF text = <<>> THEN <<>>
  ELSE
    LET stripped == strip(SelectSeq(text, LAMBDA c : c \notin HarmfulChars)) IN
    IF Len(stripped) > MAX_TOPIC_LENGTH
    THEN SubSeq(stripped, 1, MAX_TOPIC_LENGTH)
    ELSE stripped

(***************************************************************************)
(* The strings make_openai_request returns on failure                      *)
(***************************************************************************)
\* main.py:129  "OpenAI API key not configured. Please set the OPENAI_API_KEY environment variable."
MsgNotConfigured ==
  <<"O", "p", "e", "n", "A", "I", " ", "A", "P", "I", " ", "k", "e", "y",
    " ", "n", "o", "t", " ", "c", "o", "n", "f", "i", "g", "u", "r", "e",
    "d", ".", " ", "P", "l", "e", "a", "s", "e", " ", "s", "e", "t", " ",
    "t", "h", "e", " ", "O", "P", "E", "N", "A", "I", "_", "A", "P", "I",
    "_", "K", "E", "Y", " ", "e", "n", "v", "i", "r", "o", "n", "m", "e",
    "n", "t", " ", "v", "a", "r", "i", "a", "b", "l", "e", ".">>

\* main.py:147  "Service temporarily unavailable due to high demand. Please try again later."
MsgRateLimited ==
  <<"S", "e", "r", "v", "i", "c", "e", " ", "t", "e", "m", "p", "o", "r",
    "a", "r", "i", "l", "y", " ", "u", "n", "a", "v", "a", "i", "l", "a",
    "b", "l", "e", " ", "d", "u", "e", " ", "t", "o", " ", "h", "i", "g",
    "h", " ", "d", "e", "m", "a", "n", "d", ".", " ", "P", "l", "e", "a",
    "s", "e", " ", "t", "r", "y", " ", "a", "g", "a", "i", "n", " ", "l",
    "a", "t", "e", "r", ".">>

\* main.py:151  "API Error: Unable to process request. Please try again."
MsgApiError ==
  <<"A", "P", "I", " ", "E", "r", "r", "o", "r", ":", " ", "U", "n", "a",
    "b", "l", "e", " ", "t", "o", " ", "p", "r", "o", "c", "e", "s", "s",
    " ", "r", "e", "q", "u", "e", "s", "t", ".", " ", "P", "l", "e", "a",
    "s", "e", " ", "t", "r", "y", " ", "a", "g", "a", "i", "n", ".">>

\* main.py:155  "Invalid request. Please check your input and try again."
MsgInvalidRequest ==
  <<"I", "n", "v", "a", "l", "i", "d", " ", "r", "e", "q", "u", "e", "s",
    "t", ".", " ", "P", "l", "e", "a", "s", "e", " ", "c", "h", "e", "c",
    "k", " ", "y", "o", "u", "r", " ", "i", "n", "p", "u", "t", " ", "a",
    "n", "d", " ", "t", "r", "y", " ", "a", "g", "a", "i", "n", ".">>

\* main.py:162  "An unexpected error occurred. Please try again."
MsgUnexpected ==
  <<"A", "n", " ", "u", "n", "e", "x", "p", "e", "c", "t", "e", "d", " ",
    "e", "r", "r", "o", "r", " ", "o", "c", "c", "u", "r", "r", "e", "d",
    ".", " ", "P", "l", "e", "a", "s", "e", " ", "t", "r", "y", " ", "a",
    "g", "a", "i", "n", ".">>

\* main.py:164  "Request failed after multiple attempts."
MsgExhausted ==
  <<"R", "e", "q", "u", "e", "s", "t", " ", "f", "a", "i", "l", "e", "d",
    " ", "a", "f", "t", "e", "r", " ", "m", "u", "l", "t", "i", "p", "l",
    "e", " ", "a", "t", "t", "e", "m", "p", "t", "s", ".">>
\* the prefixes of lines 200, 230, 241, 260 and 1020
ErrorPrefixes ==
  { <<"E", "r", "r", "o", "r", ":">>,
    <<"A", "P", "I", " ", "E", "r", "r", "o", "r", ":">>,
    <<"S", "e", "r", "v", "i", "c", "e", " ", "t", "e", "m", "p", "o", "r",
      "a", "r", "i", "l", "y">> }

\* `response and not response.startswith(("Error:", "API Error:",
\* "Service temporarily"))`: the text is taken for a completion
looks_successful(response) ==
  /\ response # <<>>
  /\ \A p \in ErrorPrefixes : ~startswith(response, p)

\* main.py:1045  "Error: Please enter a topic to explain."
ErrNoTopic ==
  <<"E", "r", "r", "o", "r", ":", " ", "P", "l", "e", "a", "s", "e", " ",
    "e", "n", "t", "e", "r", " ", "a", " ", "t", "o", "p", "i", "c", " ",
    "t", "o", " ", "e", "x", "p", "l", "a", "i", "n", ".">>

\* main.py:1047  "Error: Topic too short. Please enter a meaningful topic."
ErrTopicTooShort ==
  <<"E", "r", "r", "o", "r", ":", " ", "T", "o", "p", "i", "c", " ", "t",
    "o", "o", " ", "s", "h", "o", "r", "t", ".", " ", "P", "l", "e", "a",
    "s", "e", " ", "e", "n", "t", "e", "r", " ", "a", " ", "m", "e", "a",
    "n", "i", "n", "g", "f", "u", "l", " ", "t", "o", "p", "i", "c", ".">>

(***************************************************************************)
(* The completion client (openai.ChatCompletion.create) as the code sees   *)
(* it: every attempt either yields a message content or raises.            *)
(***************************************************************************)
\* "**A**\n\n\nB\nC\nD": emphasis markup, a run of blank lines, four lines
TextMarkup ==
  <<"*", "*", "A", "*", "*", "\n", "\n", "\n", "B", "\n", "C", "\n", "D">>

\* " \n": a content that is empty once stripped
TextBlank == <<" ", "\n">>

\* "Error: 5": a content that begins like a failure message
TextError == <<"E", "r", "r", "o", "r", ":", " ", "5">>

\* the message contents the client returns in the model
Contents == {TextMarkup, TextBlank, TextError}

\* the exceptions of lines 142, 149, 153 and 157 ("Exception" is any other)
ErrorKinds == {"RateLimitError", "APIError", "InvalidRequestError", "Exception"}

Raises(kind) == [kind |-> kind, content |-> <<>>]

Returns(content) == [kind |-> "ok", content |-> content]

\* what one attempt of the client can do
Outcomes == {Returns(c) : c \in Contents} \cup {Raises(k) : k \in ErrorKinds}

\* the values of config.OPENAI_API_KEY: unset, the placeholder, a real key
ApiKeys == {"", "your-api-key-here", "sk-key"}

VARIABLES
  OPENAI_API_KEY,       \* config.OPENAI_API_KEY, fixed when the module is loaded
  \* ---- the web application
  session,              \* per client: the Flask session, key -> list of exchanges
  request_timestamps,   \* the rate limiter's list; each entry kept as its age
                        \* now - ts in seconds, capped at 60
  search_history,       \* rows of table search_history in id order, each
                        \* [topic, timestamp]; timestamps are kept up to order
  db_clock,             \* CURRENT_TIMESTAMP of the database, on the same scale
  req,                  \* the request handled last, with what the client's
                        \* session held when it arrived
  resp,                 \* the response it got
  sent,                 \* the messages it passed to make_openai_request, in order
  store_ops,            \* how many times it called each session operation
  log,                  \* per client and topic: the exchanges appended since the
                        \* topic's conversation was last dropped, in order
  callers,              \* the clients whose requests the server has handled
  inflight,             \* the requests a client has sent and not yet got the
                        \* response of, each with the session cookie it carries
  accepted,             \* the ages, in seconds, of the requests the rate limiter
                        \* let through less than a window ago
  threads,              \* where each thread that runs decorated_function is in
                        \* it, and the list it built
  \* ---- one call of make_openai_request, statement by statement
  pc,                   \* "start", "loop", "returned" or "raised"
  max_retries,          \* the argument
  attempt,              \* the loop variable
  api_calls,            \* number of openai.ChatCompletion.create calls made
  seen,                 \* the outcome of every attempt so far, in order
  sleeps,               \* the arguments of the time.sleep calls so far, in order
  ret                   \* the returned string (<<>> before the return)

app_vars ==
  <<session, request_timestamps, search_history, db_clock, req, resp, sent,
    store_ops, log, callers, inflight, accepted, threads>>

retry_vars == <<pc, max_retries, attempt, api_calls, seen, sleeps, ret>>

\* line 128 with the comparison to the placeholder left out
unconfigured_only_unset == OPENAI_API_KEY = ""

\* line 128
unconfigured == OPENAI_API_KEY = "" \/ OPENAI_API_KEY = "your-api-key-here"

RECURSIVE pow2(_)
pow2(n) == IF n = 0 THEN 1 ELSE 2 * pow2(n - 1)

\* attempt_body with the test of line 144 left out: a rate-limited attempt
\* always sleeps and goes on to the next one
attempt_body_always_waiting(outcome, att, retries) ==
  CASE outcome.kind = "ok" ->
         [exit |-> "return", value |-> strip(outcome.content), sleep |-> <<>>]
    [] outcome.kind = "RateLimitError" ->
         [exit |-> "continue", value |-> <<>>, sleep |-> <<pow2(att)>>]
    [] outcome.kind = "APIError" ->
         [exit |-> "return", value |-> MsgApiError, sleep |-> <<>>]
    [] outcome.kind = "InvalidRequestError" ->
         [exit |-> "return", value |-> MsgInvalidRequest, sleep |-> <<>>]
    [] OTHER ->
         IF att < retries - 1
         THEN [exit |-> "continue", value |-> <<>>, sleep |-> <<1>>]
         ELSE [exit |-> "return", value |-> MsgUnexpected, sleep |-> <<>>]

\* attempt_body without the clause of lines 157-162: an exception that is
\* none of the three OpenAI errors leaves the function
attempt_body_uncaught(outcome, att, retries) ==
  CASE outcome.kind = "ok" ->
         [exit |-> "return", value |-> strip(outcome.content), sleep |-> <<>>]
    [] outcome.kind = "RateLimitError" ->
         IF att < retries - 1
         THEN [exit |-> "continue", value |-> <<>>, sleep |-> <<pow2(att)>>]
         ELSE [exit |-> "return", value |-> MsgRateLimited, sleep |-> <<>>]
    [] outcome.kind = "APIError" ->
         [exit |-> "return", value |-> MsgApiError, sleep |-> <<>>]
    [] outcome.kind = "InvalidRequestError" ->
         [exit |-> "return", value |-> MsgInvalidRequest, sleep |-> <<>>]
    [] OTHER ->
         [exit |-> "raise", value |-> <<>>, sleep |-> <<>>]

\* attempt_body with the clause of lines 153-155 left out: an
\* InvalidRequestError falls to the clause of lines 157-162 and is retried
attempt_body_retrying_invalid(outcome, att, retries) ==
  CASE outcome.kind = "ok" ->
         [exit |-> "return", value |-> strip(outcome.content), sleep |-> <<>>]
    [] outcome.kind = "RateLimitError" ->
         IF att < retries - 1
         THEN [exit |-> "continue", value |-> <<>>, sleep |-> <<pow2(att)>>]
         ELSE [exit |-> "return", value |-> MsgRateLimited, sleep |-> <<>>]
    [] outcome.kind = "APIError" ->
         [exit |-> "return", value |-> MsgApiError, sleep |-> <<>>]
    [] OTHER ->
         IF att < retries - 1
         THEN [exit |-> "continue", value |-> <<>>, sleep |-> <<1>>]
         ELSE [exit |-> "return", value |-> MsgUnexpected, sleep |-> <<>>]

\* attempt_body with the wait of line 145 growing by one second for each
\* attempt instead of doubling
attempt_body_linear_backoff(outcome, att, retries) ==
  CASE outcome.kind = "ok" ->
         [exit |-> "return", value |-> strip(outcome.content), sleep |-> <<>>]
    [] outcome.kind = "RateLimitError" ->
         IF att < retries - 1
         THEN [exit |-> "continue", value |-> <<>>, sleep |-> <<att + 1>>]
         ELSE [exit |-> "return", value |-> MsgRateLimited, sleep |-> <<>>]
    [] outcome.kind = "APIError" ->
         [exit |-> "return", value |-> MsgApiError, sleep |-> <<>>]
    [] outcome.kind = "InvalidRequestError" ->
         [exit |-> "return", value |-> MsgInvalidRequest, sleep |-> <<>>]
    [] OTHER ->
         IF att < retries - 1
         THEN [exit |-> "continue", value |-> <<>>, sleep |-> <<1>>]
         ELSE [exit |-> "return", value |-> MsgUnexpected, sleep |-> <<>>]

\* The body of the for loop (lines 132-162) for one attempt: how it is left
\* ("return", "continue" with the next attempt, or "raise" when the exception
\* is caught by no clause), the value returned, and the sleeps made.
attempt_body(outcome, att, retries) ==
  CASE outcome.kind = "ok" ->
         [exit |-> "return", value |-> strip(outcome.content), sleep |-> <<>>]
    [] outcome.kind = "RateLimitError" ->
         IF att < retries - 1
         THEN [exit |-> "continue", value |-> <<>>, sleep |-> <<pow2(att)>>]
         ELSE [exit |-> "return", value |-> MsgRateLimited, sleep |-> <<>>]
    [] outcome.kind = "APIError" ->
         [exit |-> "return", value |-> MsgApiError, sleep |-> <<>>]
    [] outcome.kind = "InvalidRequestError" ->
         [exit |-> "return", value |-> MsgInvalidRequest, sleep |-> <<>>]
    [] OTHER ->
         IF att < retries - 1
         THEN [exit |-> "continue", value |-> <<>>, sleep |-> <<1>>]
         ELSE [exit |-> "return", value |-> MsgUnexpected, sleep |-> <<>>]

\* lines 131-164 as a function of what the client does on each attempt
\* (outcomes[1] is attempt 0)
RECURSIVE retry_loop(_, _, _)
retry_loop(outcomes, att, retries) ==
  IF att >= retries THEN MsgExhausted
  ELSE LET r == attempt_body(outcomes[att + 1], att, retries) IN
       IF r.exit = "continue"
       THEN retry_loop(outcomes, att + 1, retries)
       ELSE r.value

\* make_openai_request(messages, max_retries): the returned string
make_openai_request(outcomes, retries) ==
  IF unconfigured THEN MsgNotConfigured ELSE retry_loop(outcomes, 0, retries)

(***************************************************************************)
(* Prompts.  An f-string is kept as the sequence of its pieces: the        *)
(* literal text of the template (Lit), an interpolated str (Str) and an    *)
(* interpolated int (Num).                                                 *)
(***************************************************************************)
Lit(text) == [piece |-> "lit", lit |-> text, str |-> <<>>, num |-> 0]

Str(s) == [piece |-> "str", lit |-> "", str |-> s, num |-> 0]

Num(n) == [piece |-> "num", lit |-> "", str |-> <<>>, num |-> n]

\* the two messages of one completion request
Messages(system, user) == [system |-> system, user |-> user]

\* "simple", "teen", "adult": the values of the form's explanation_type
LevelSimple == <<"s", "i", "m", "p", "l", "e">>

LevelTeen == <<"t", "e", "e", "n">>

LevelAdult == <<"a", "d", "u", "l", "t">>

\* lines 169-190
main_prompt(topic, explanation_type) ==
  IF explanation_type = LevelSimple
  THEN <<Lit("\n        Explain \""), Str(topic),
         Lit("\" for a 5-year-old child in 2-3 short paragraphs. Use:\n        - Very simple words and short sentences\n        - One fun example they can relate to\n        - Keep it brief and engaging\n        ")>>
  ELSE IF explanation_type = LevelTeen
  THEN <<Lit("\n        Explain \""), Str(topic),
         Lit("\" for a 15-year-old student in 2-3 paragraphs. Use:\n        - Clear explanations with some technical terms\n        - One real-world example\n        - Why it matters to them\n        - Keep it concise and informative\n        ")>>
  ELSE <<Lit("\n        Explain \""), Str(topic),
         Lit("\" for an adult in 2-3 paragraphs. Include:\n        - Technical terminology and precise language\n        - Key applications and implications\n        - Keep it comprehensive but concise\n        ")>>

\* lines 192-195
explanation_messages(topic, explanation_type) ==
  Messages(
    <<Lit("You are an expert educator who explains complex topics clearly at different levels. Always use the exact format requested with clear level headings.")>>,
    main_prompt(topic, explanation_type))

\* lines 223-226
followup_question_messages(topic) ==
  Messages(
    <<Lit("Generate exactly 3 thoughtful follow-up questions. Return only the questions, one per line, without numbering.")>>,
    <<Lit("Generate 3 follow-up questions someone might ask after learning about "),
      Str(topic), Lit(".")>>)

\* lines 234-237
related_messages(topic) ==
  Messages(
    <<Lit("Generate exactly 5 related topics. Return only the topic names, one per line.")>>,
    <<Lit("List 5 topics closely related to "), Str(topic),
      Lit(" that would be interesting to explore.")>>)

\* lines 249-251: "\n\nAvoid ...:\n" + "\n".join(f"- {q}" for q in asked)
RECURSIVE joined_asked(_)
joined_asked(asked_questions) ==
  IF asked_questions = <<>> THEN <<>>
  ELSE <<Lit("- "), Str(Head(asked_questions))>>
       \o (IF Len(asked_questions) > 1 THEN <<Lit("\n")>> ELSE <<>>)
       \o joined_asked(Tail(asked_questions))

asked_context(asked_questions) ==
  IF asked_questions = <<>> THEN <<>>
  ELSE <<Lit("\n\nAvoid these questions that have already been asked:\n")>>
       \o joined_asked(asked_questions)

\* lines 253-256
suggestion_messages(topic, asked_questions, explanation_type) ==
  Messages(
    <<Lit("Generate exactly 3 new follow-up questions about "), Str(topic),
      Lit(" at a "), Str(explanation_type),
      Lit(" level. Return only the questions, one per line, without numbering.")>>,
    <<Lit("Generate 3 NEW follow-up questions someone might ask after learning about "),
      Str(topic), Lit(".")>> \o asked_context(asked_questions))

\* lines 1006-1010: enumerate(followup_conversation, 1)
RECURSIVE context_pairs(_, _)
context_pairs(conversation, i) ==
  IF conversation = <<>> THEN <<>>
  ELSE <<Lit("Q"), Num(i), Lit(": "), Str(Head(conversation).question),
         Lit("\nA"), Num(i), Lit(": "), Str(Head(conversation).answer),
         Lit("\n\n")>>
       \o context_pairs(Tail(conversation), i + 1)

\* conversation_context with enumerate(followup_conversation) counting from 0
conversation_context_from_zero(conversation) ==
  IF conversation = <<>> THEN <<>>
  ELSE <<Lit("\n\nPrevious conversation:\n")>> \o context_pairs(conversation, 0)

\* conversation_context without the test of line 1007
conversation_context_untested(conversation) ==
  <<Lit("\n\nPrevious conversation:\n")>> \o context_pairs(conversation, 1)

\* lines 1006-1010
conversation_context(conversation) ==
  IF conversation = <<>> THEN <<>>
  ELSE <<Lit("\n\nPrevious conversation:\n")>> \o context_pairs(conversation, 1)

\* lines 1013-1016
answer_messages(original_topic, conversation, followup_question, explanation_type) ==
  Messages(
    <<Lit("You are explaining topics at a "), Str(explanation_type),
      Lit(" level. Answer this follow-up question about "), Str(original_topic),
      Lit(" clearly and concisely. Consider the previous conversation context if provided.")>>,
    <<Lit("Original topic: "), Str(original_topic)>>
      \o conversation_context(conversation)
      \o <<Lit("\nCurrent follow-up question: "), Str(followup_question)>>)

(***************************************************************************)
(* Cleaning of completion texts                                            *)
(***************************************************************************)
\* [x.strip() for x in text.split('\n') if x.strip()]
stripped_lines(text) ==
  SelectSeq([i \in 1..Len(split_lines(text)) |-> strip(split_lines(text)[i])],
            LAMBDA line : line # <<>>)

\* '\n\n'.join(lines)
RECURSIVE join_paragraphs(_)
join_paragraphs(lines) ==
  IF lines = <<>> THEN <<>>
  ELSE IF Len(lines) = 1 THEN Head(lines)
  ELSE Head(lines) \o <<"\n", "\n">> \o join_paragraphs(Tail(lines))

\* re.sub(r'\n{3,}', '\n\n', s): the leftmost run of three or more newlines
\* becomes two, and the rest is searched on
RECURSIVE collapse_newlines(_)
collapse_newlines(s) ==
  LET runs == {i \in 1..(Len(s) - 2) :
                 s[i] = "\n" /\ s[i + 1] = "\n" /\ s[i + 2] = "\n"} IN
  IF runs = {} THEN s
  ELSE LET i == Min(runs)
           after == {j \in i..Len(s) : s[j] # "\n"}
           next == IF after = {} THEN Len(s) + 1 ELSE Min(after) IN
       SubSeq(s, 1, i - 1) \o <<"\n", "\n">>
         \o collapse_newlines(SubSeq(s, next, Len(s)))

\* lines 200-220: the explanation text as shown
clean_explanation(result) ==
  IF looks_successful(result)
  THEN strip(collapse_newlines(join_paragraphs(stripped_lines(sub_italic(sub_bold(result))))))
  ELSE result

\* lines 1022-1024: the follow-up answer as stored
clean_answer(followup_response) == strip(sub_italic(sub_bold(followup_response)))

\* parse_list without the slice [:n]
parse_list_unsliced(response, n) ==
  IF looks_successful(response) THEN stripped_lines(response) ELSE <<>>

\* lines 229-231, 240-242 and 259-261: the lines of a completion, at most n
parse_list(response, n) ==
  IF looks_successful(response) THEN first_n(stripped_lines(response), n) ELSE <<>>

\* html.unescape for the character references Jinja's |e filter writes
\* (line 805): &amp; &lt; &gt; &#34; &#39;
Entities ==
  { [ref |-> <<"&", "a", "m", "p", ";">>, char |-> "&"],
    [ref |-> <<"&", "l", "t", ";">>, char |-> "<"],
    [ref |-> <<"&", "g", "t", ";">>, char |-> ">"],
    [ref |-> <<"&", "#", "3", "4", ";">>, char |-> "\""],
    [ref |-> <<"&", "#", "3", "9", ";">>, char |-> "'"] }

\* the references that start at position i of s
refs_at(s, i) == {e \in Entities : startswith(SubSeq(s, i, Len(s)), e.ref)}

RECURSIVE html_unescape(_)
html_unescape(s) ==
  LET hits == {i \in 1..Len(s) : refs_at(s, i) # {}} IN
  IF hits = {} THEN s
  ELSE LET i == Min(hits)
           e == CHOOSE e \in refs_at(s, i) : TRUE IN
       SubSeq(s, 1, i - 1) \o <<e.char>>
         \o html_unescape(SubSeq(s, i + Len(e.ref), Len(s)))

(***************************************************************************)
(* Search history (table search_history of search_history.db)              *)
(***************************************************************************)
\* LIMIT 10 of lines 71 and 83
HISTORY_LIMIT == 10

\* The orders `ORDER BY timestamp DESC` may list the rows in: rows of equal
\* timestamp come in any order.  An order is a sequence of row positions.
RECURSIVE orders_of(_, _)
orders_of(rows, positions) ==
  IF positions = {} THEN {<<>>}
  ELSE UNION { { <<i>> \o rest : rest \in orders_of(rows, positions \ {i}) } :
               i \in { i \in positions :
                         \A j \in positions :
                           rows[j].timestamp <= rows[i].timestamp } }

desc_orders(rows) == orders_of(rows, DOMAIN rows)

\* lines 83-84 for one order of the rows
recent_topics(rows, order) ==
  [k \in 1..(IF Len(order) < HISTORY_LIMIT THEN Len(order) ELSE HISTORY_LIMIT)
     |-> rows[order[k]].topic]

\* get_recent_searches(): every list it may return
get_recent_searches(rows) == { recent_topics(rows, o) : o \in desc_orders(rows) }

\* the rows at the given positions, in id order
RECURSIVE rows_at(_, _, _)
rows_at(rows, keep, i) ==
  IF i > Len(rows) THEN <<>>
  ELSE (IF i \in keep THEN <<rows[i]>> ELSE <<>>) \o rows_at(rows, keep, i + 1)

\* add_search_to_history without the DELETE of the rows of the topic
add_search_to_history_keeping_topic(rows, clock, topic) ==
  LET inserted == Append(rows, [topic |-> topic, timestamp |-> clock])
  IN { rows_at(inserted,
               { o[k] : k \in 1..(IF Len(o) < HISTORY_LIMIT
                                  THEN Len(o) ELSE HISTORY_LIMIT) },
               1) :
       o \in desc_orders(inserted) }

\* add_search_to_history(topic): every table it may leave (lines 60-73)
add_search_to_history(rows, clock, topic) ==
  LET deleted  == SelectSeq(rows, LAMBDA r : r.topic # topic)
      inserted == Append(deleted, [topic |-> topic, timestamp |-> clock])
  IN { rows_at(inserted,
               { o[k] : k \in 1..(IF Len(o) < HISTORY_LIMIT
                                  THEN Len(o) ELSE HISTORY_LIMIT) },
               1) :
       o \in desc_orders(inserted) }

(***************************************************************************)
(* generate_explanation and generate_new_suggested_questions               *)
(*                                                                         *)
(* `client` gives, for each completion request of one HTTP request, what   *)
(* the client does on each attempt of it.                                  *)
(***************************************************************************)
CallNames == {"explanation", "followups", "related", "answer", "suggestions"}

\* the default of the parameter max_retries (line 126)
default_max_retries == 3

\* lines 166-244
generate_explanation(topic, explanation_type, client) ==
  [ result |->
      clean_explanation(make_openai_request(client["explanation"], default_max_retries)),
    followup_questions |->
      parse_list(make_openai_request(client["followups"], default_max_retries), 3),
    related_topics |->
      parse_list(make_openai_request(client["related"], default_max_retries), 5),
    sent |-> << explanation_messages(topic, explanation_type),
                followup_question_messages(topic),
                related_messages(topic) >> ]

\* lines 246-263
generate_new_suggested_questions(topic, asked_questions, explanation_type, client) ==
  [ new_questions |->
      parse_list(make_openai_request(client["suggestions"], default_max_retries), 3),
    sent |-> << suggestion_messages(topic, asked_questions, explanation_type) >> ]

(***************************************************************************)
(* The Flask session of one client: a dict from key to list of exchanges   *)
(***************************************************************************)
\* "conversation_"
KeyPrefix == <<"c", "o", "n", "v", "e", "r", "s", "a", "t", "i", "o", "n", "_">>

\* session_key without the topic: one conversation per session
session_key_shared(topic) == KeyPrefix

\* f"conversation_{topic}" (lines 985 and 1054)
session_key(topic) == KeyPrefix \o topic

\* session.get(key, [])
session_get(sess, key) == IF key \in DOMAIN sess THEN sess[key] ELSE <<>>

\* session[key] = value
session_set(sess, key, value) ==
  [k \in DOMAIN sess \cup {key} |-> IF k = key THEN value ELSE sess[k]]

\* del session[key] for every key of `keys`
session_del(sess, keys) == [k \in DOMAIN sess \ keys |-> sess[k]]

Exchange(question, answer) == [question |-> question, answer |-> answer]

NoOps == [get |-> 0, set |-> 0, del |-> 0, contains |-> 0, keys |-> 0]

(***************************************************************************)
(* The route "/" (explain, lines 958-1076)                                 *)
(***************************************************************************)
\* request.form.get(name, default)
form_get(form, name, default) == IF name \in DOMAIN form THEN form[name] ELSE default

\* None, which the code and the template only ever test for truth, as ''
None == <<>>

\* render_template_string(HTML_TEMPLATE, ...) of lines 1068-1076
Page(result, followup_questions, related_topics, recent_searches, followup_conversation, current_topic) ==
  [ status |-> 200, body |-> "page",
    result |-> result,
    followup_questions |-> followup_questions,
    related_topics |-> related_topics,
    recent_searches |-> recent_searches,
    followup_conversation |-> followup_conversation,
    current_topic |-> current_topic ]

\* a JSON response: neither page nor any of its slots
Json(status, body) ==
  [ status |-> status, body |-> body,
    result |-> None, followup_questions |-> <<>>, related_topics |-> <<>>,
    recent_searches |-> <<>>, followup_conversation |-> <<>>,
    current_topic |-> None ]

\* What explain leaves behind: the session, the history table, the response,
\* the messages passed to make_openai_request and the session operations made;
\* and, for the record kept in `log`, the exchanges it appended to the
\* conversation of its topic and the conversations it dropped ("none",
\* "topic": that of its topic, "all": every one of the session).
Outcome(sess, rows, response, messages, ops, appended, dropped) ==
  [session |-> sess, rows |-> rows, resp |-> response, sent |-> messages,
   store_ops |-> ops, appended |-> appended, dropped |-> dropped]

\* clear_conversation answering with an error when there is nothing to clear
clear_conversation_strict(sess, rows) ==
  LET keys_to_remove == {key \in DOMAIN sess : startswith(key, KeyPrefix)} IN
  IF keys_to_remove = {}
  THEN Outcome(sess, rows, Json(404, "error: no conversation"), <<>>,
               [NoOps EXCEPT !.keys = 1], <<>>, "all")
  ELSE Outcome(session_del(sess, keys_to_remove), rows,
               Json(200, "status: success"), <<>>,
               [NoOps EXCEPT !.keys = 1, !.del = Cardinality(keys_to_remove)],
               <<>>, "all")

\* clear_conversation deleting one conversation only
clear_conversation_single(sess, rows) ==
  LET keys == {key \in DOMAIN sess : startswith(key, KeyPrefix)}
      keys_to_remove == IF keys = {} THEN {} ELSE {CHOOSE key \in keys : TRUE} IN
  Outcome(session_del(sess, keys_to_remove), rows,
          Json(200, "status: success"), <<>>,
          [NoOps EXCEPT !.keys = 1, !.del = Cardinality(keys_to_remove)],
          <<>>, "all")

\* lines 970-975: the request to clear
clear_conversation(sess, rows) ==
  LET keys_to_remove == {key \in DOMAIN sess : startswith(key, KeyPrefix)} IN
  Outcome(session_del(sess, keys_to_remove), rows,
          Json(200, "status: success"), <<>>,
          [NoOps EXCEPT !.keys = 1, !.del = Cardinality(keys_to_remove)],
          <<>>, "all")

\* lines 978-1038 and 1060-1076: a follow-up question
followup(sess, rows, form, client, recent_searches) ==
  LET followup_question == sanitize_input(form_get(form, "followup_question", <<>>))
      original_topic    == sanitize_input(form_get(form, "original_topic", <<>>))
      explanation_type  == form_get(form, "explanation_type", LevelSimple)
      key               == session_key(original_topic)
      loaded            == session_get(sess, key)
      original_result   == form_get(form, "original_result", <<>>)
      generated         == generate_explanation(original_topic, explanation_type, client)
      result            == IF original_result # <<>>
                           THEN html_unescape(original_result)
                           ELSE generated.result
      followup_response == make_openai_request(client["answer"], default_max_retries)
      exchange          == Exchange(followup_question,
                                    clean_answer(followup_response))
      appended          == Append(loaded, exchange)
      asked_questions   == [i \in 1..Len(appended) |-> appended[i].question]
      suggested         == generate_new_suggested_questions(
                             original_topic, asked_questions, explanation_type, client)
      answer_sent       == << answer_messages(original_topic, loaded,
                                              followup_question, explanation_type) >>
  IN
  IF followup_question # <<>> /\ original_topic # <<>>
  THEN IF looks_successful(followup_response)
       THEN Outcome(session_set(sess, key, appended), rows,
                    Page(result, suggested.new_questions, generated.related_topics,
                         recent_searches, appended, original_topic),
                    generated.sent \o answer_sent \o suggested.sent,
                    [NoOps EXCEPT !.get = 1, !.set = 1],
                    <<exchange>>, "none")
       ELSE Outcome(sess, rows,
                    Page(result, generated.followup_questions,
                         generated.related_topics, recent_searches, loaded,
                         original_topic),
                    generated.sent \o answer_sent,
                    [NoOps EXCEPT !.get = 1],
                    <<>>, "none")
  ELSE Outcome(sess, rows,
               Page(None, <<>>, <<>>, recent_searches, loaded, original_topic),
               <<>>,
               [NoOps EXCEPT !.get = 1],
               <<>>, "none")

\* forget_conversation without lines 1055-1056
forget_conversation_never(sess, key) == sess

\* forget_conversation deleting the conversations of all topics, as lines
\* 972-974 do
forget_conversation_all(sess, key) ==
  session_del(sess, {k \in DOMAIN sess : startswith(k, KeyPrefix)})

\* lines 1053-1056: a new explanation drops the topic's conversation
forget_conversation(sess, key) ==
  IF key \in DOMAIN sess THEN session_del(sess, {key}) ELSE sess

\* main_topic with add_search_to_history called before the topic is tested
main_topic_recording_first(sess, rows, form, client, recent_searches, added, refreshed) ==
  LET topic            == sanitize_input(form_get(form, "topic", <<>>))
      explanation_type == form_get(form, "explanation_type", LevelSimple)
      generated        == generate_explanation(topic, explanation_type, client)
      key              == session_key(topic)
  IN
  IF topic = <<>>
  THEN Outcome(sess, added,
               Page(ErrNoTopic, <<>>, <<>>, recent_searches, <<>>, topic),
               <<>>, NoOps, <<>>, "none")
  ELSE IF Len(strip(topic)) < 2
  THEN Outcome(sess, added,
               Page(ErrTopicTooShort, <<>>, <<>>, recent_searches, <<>>, topic),
               <<>>, NoOps, <<>>, "none")
  ELSE Outcome(forget_conversation(sess, key),
               added,
               Page(generated.result, generated.followup_questions,
                    generated.related_topics, refreshed, <<>>, topic),
               generated.sent,
               [NoOps EXCEPT !.contains = 1,
                             !.del = IF key \in DOMAIN sess THEN 1 ELSE 0],
               <<>>, "topic")

\* lines 1040-1058 and 1060-1076: a main topic, once add_search_to_history
\* has left the table `added`
main_topic(sess, rows, form, client, recent_searches, added, refreshed) ==
  LET topic            == sanitize_input(form_get(form, "topic", <<>>))
      explanation_type == form_get(form, "explanation_type", LevelSimple)
      generated        == generate_explanation(topic, explanation_type, client)
      key              == session_key(topic)
  IN
  IF topic = <<>>
  THEN Outcome(sess, rows,
               Page(ErrNoTopic, <<>>, <<>>, recent_searches, <<>>, topic),
               <<>>, NoOps, <<>>, "none")
  ELSE IF Len(strip(topic)) < 2
  THEN Outcome(sess, rows,
               Page(ErrTopicTooShort, <<>>, <<>>, recent_searches, <<>>, topic),
               <<>>, NoOps, <<>>, "none")
  ELSE Outcome(forget_conversation(sess, key),
               added,
               Page(generated.result, generated.followup_questions,
                    generated.related_topics, refreshed, <<>>, topic),
               generated.sent,
               [NoOps EXCEPT !.contains = 1,
                             !.del = IF key \in DOMAIN sess THEN 1 ELSE 0],
               <<>>, "topic")

\* explain(): every way the request can end, given the client's session, the
\* history table and the clock of the database
explain(sess, rows, clock, request, client) ==
  IF request.method = "POST" /\ "clear_conversation" \in DOMAIN request.form
  THEN { clear_conversation(sess, rows) }
  ELSE IF request.method = "POST" /\ "followup_question" \in DOMAIN request.form
  THEN { followup(sess, rows, request.form, client, recent) :
         recent \in get_recent_searches(rows) }
  ELSE IF request.method = "POST"
  THEN UNION { UNION { { main_topic(sess, rows, request.form, client, recent,
                                    added, refreshed) :
                         refreshed \in get_recent_searches(added) } :
                       added \in add_search_to_history(
                                   rows, clock,
                                   sanitize_input(form_get(request.form, "topic", <<>>))) } :
               recent \in get_recent_searches(rows) }
  ELSE { Outcome(sess, rows,
                 Page(None, <<>>, <<>>, recent, <<>>, None), <<>>, NoOps,
                 <<>>, "none") :
         recent \in get_recent_searches(rows) }

(***************************************************************************)
(* The rate limiter (rate_limit, lines 93-109) and the passing of time     *)
(***************************************************************************)
RATE_LIMIT_REQUESTS == 10

\* the window of line 101, in seconds
WINDOW_SECONDS == 60

\* rate_limit with > for the >= of line 103
rate_limit_one_more(timestamps, max_requests) ==
  LET cleaned == SelectSeq(timestamps, LAMBDA age : age < WINDOW_SECONDS) IN
  IF Len(cleaned) > max_requests
  THEN [admitted |-> FALSE, timestamps |-> cleaned]
  ELSE [admitted |-> TRUE, timestamps |-> Append(cleaned, 0)]

\* rate_limit with line 106 before the test of line 103: a refused request
\* leaves its timestamp too
rate_limit_stamping_all(timestamps, max_requests) ==
  LET cleaned == SelectSeq(timestamps, LAMBDA age : age < WINDOW_SECONDS) IN
  IF Len(cleaned) >= max_requests
  THEN [admitted |-> FALSE, timestamps |-> Append(cleaned, 0)]
  ELSE [admitted |-> TRUE, timestamps |-> Append(cleaned, 0)]

\* lines 98-106 on the list of ages: the cleaned list, and whether the
\* request is let through (its own timestamp, of age 0, is then appended)
rate_limit(timestamps, max_requests) ==
  LET cleaned == SelectSeq(timestamps, LAMBDA age : age < WINDOW_SECONDS) IN
  IF Len(cleaned) >= max_requests
  THEN [admitted |-> FALSE, timestamps |-> cleaned]
  ELSE [admitted |-> TRUE, timestamps |-> Append(cleaned, 0)]

\* d seconds pass: every timestamp is d seconds older (ages are capped at the
\* window, beyond which the limiter treats them alike)
aged(timestamps, d) ==
  [i \in DOMAIN timestamps |->
     IF timestamps[i] + d < WINDOW_SECONDS THEN timestamps[i] + d
     ELSE WINDOW_SECONDS]

\* the database timestamps renumbered 0, 1, 2, ... in their order
rank_in(values, v) == Cardinality({u \in values : u < v})

ranked_rows(rows, clock) ==
  LET values == {rows[i].timestamp : i \in DOMAIN rows} \cup {clock} IN
  [i \in DOMAIN rows |->
     [topic |-> rows[i].topic, timestamp |-> rank_in(values, rows[i].timestamp)]]

ranked_clock(rows, clock) ==
  rank_in({rows[i].timestamp : i \in DOMAIN rows} \cup {clock}, clock)

\* the clock of the database d seconds later (CURRENT_TIMESTAMP counts seconds)
later(clock, d) == IF d >= 1 THEN clock + 1 ELSE clock

\* the requests let through that are less than a window old d seconds after
\* a request was let through or not
still_counted(ages, admitted, d) ==
  LET now_counted == IF admitted THEN Append(ages, 0) ELSE ages IN
  SelectSeq([i \in DOMAIN now_counted |-> now_counted[i] + d],
            LAMBDA age : age < WINDOW_SECONDS)

\* the threads of the server that handle requests at the same time
Threads == {"t1", "t2"}

\* a thread outside decorated_function
ThreadIdle == [pc |-> "idle", cleaned |-> <<>>]

(***************************************************************************)
(* One HTTP request to "/": decorated_function (lines 97-107) around       *)
(* explain, handled to its end; the next request arrives d seconds later.  *)
(***************************************************************************)
RateLimitExceeded == Json(429, "error: Rate limit exceeded. Please try again later.")

\* the topic a request is about, as the handler reads it (lines 980, 1042)
topic_of(request) ==
  sanitize_input(form_get(request.form,
                          IF "followup_question" \in DOMAIN request.form
                          THEN "original_topic" ELSE "topic", <<>>))

\* the record of a client's appended exchanges, topic -> list
log_get(record, topic) ==
  IF topic \in DOMAIN record THEN record[topic] ELSE <<>>

log_without(record, topics) ==
  [t \in DOMAIN record \ topics |-> record[t]]

recorded(record, topic, out) ==
  LET kept == CASE out.dropped = "all"   -> log_without(record, DOMAIN record)
                [] out.dropped = "topic" -> log_without(record, {topic})
                [] OTHER                 -> record
  IN
  IF out.appended = <<>> THEN kept
  ELSE (topic :> (log_get(kept, topic) \o out.appended))
       @@ log_without(kept, {topic})

Serve(s, request, client, d) ==
  LET limit == rate_limit(request_timestamps, RATE_LIMIT_REQUESTS) IN
  /\ request_timestamps' = aged(limit.timestamps, d)
  /\ req' = [session |-> s, request |-> request, client |-> client,
             admitted |-> limit.admitted,
             before |-> session[s],
             prior |-> log_get(log[s], topic_of(request)),
             first |-> s \notin callers]
  /\ callers' = callers \cup {s}
  /\ IF limit.admitted
     THEN \E out \in explain(session[s], search_history, db_clock, request, client) :
            /\ session' = [session EXCEPT ![s] = out.session]
            /\ search_history' = ranked_rows(out.rows, later(db_clock, d))
            /\ db_clock' = ranked_clock(out.rows, later(db_clock, d))
            /\ resp' = out.resp
            /\ sent' = out.sent
            /\ store_ops' = out.store_ops
            /\ log' = [log EXCEPT ![s] = recorded(log[s], topic_of(request), out)]
     ELSE /\ session' = session
          /\ search_history' = ranked_rows(search_history, later(db_clock, d))
          /\ db_clock' = ranked_clock(search_history, later(db_clock, d))
          /\ resp' = RateLimitExceeded
          /\ sent' = <<>>
          /\ store_ops' = NoOps
          /\ log' = log
  /\ accepted' = still_counted(accepted, limit.admitted, d)
  /\ UNCHANGED <<OPENAI_API_KEY, inflight, threads, retry_vars>>

(***************************************************************************)
(* The requests and clients of the model                                   *)
(***************************************************************************)
Sessions == {"s1", "s2"}

\* "<>" (nothing left once sanitized), "<a>" (one character), " ab"
RawTopics == { <<"<", ">">>, <<"<", "a", ">">>, <<" ", "a", "b">> }

\* " " (empty once sanitized), "Why?", "<How>"
RawQuestions == { <<" ">>, <<"W", "h", "y", "?">>, <<"<", "H", "o", "w", ">">> }

Levels == {LevelSimple, LevelTeen, LevelAdult}

\* the hidden field original_result: absent, or "R&amp;D"
OriginalResults == { <<>>, <<"R", "&", "a", "m", "p", ";", "D">> }

MainRequest(topic, level) ==
  [method |-> "POST",
   form |-> ("topic" :> topic) @@ ("explanation_type" :> level)]

FollowupRequest(question, topic, level, original_result) ==
  [method |-> "POST",
   form |-> ("followup_question" :> question) @@ ("original_topic" :> topic)
            @@ ("explanation_type" :> level)
            @@ ("original_result" :> original_result)]

ClearRequest ==
  [method |-> "POST", form |-> ("clear_conversation" :> <<"1">>)]

GetRequest == [method |-> "GET", form |-> <<>>]

\* a client that does the same on every attempt of every completion request
Always(outcome) ==
  [c \in CallNames |-> [i \in 1..default_max_retries |-> outcome]]

Clients == { Always(o) : o \in Outcomes }

\* the exchanges stored in one session, and over all sessions
RECURSIVE sum_len(_, _)
sum_len(sess, keys) ==
  IF keys = {} THEN 0
  ELSE LET k == CHOOSE k \in keys : TRUE IN
       Len(sess[k]) + sum_len(sess, keys \ {k})

RECURSIVE stored_in(_)
stored_in(ss) ==
  IF ss = {} THEN 0
  ELSE LET s == CHOOSE s \in ss : TRUE IN
       sum_len(session[s], DOMAIN session[s]) + stored_in(ss \ {s})

(***************************************************************************)
(* The application: requests are handled one at a time, each at least a    *)
(* window after the one before, so that the rate limiter lets it through.  *)
(* Handling a request leaves req, resp, sent and store_ops; Deliver hands  *)
(* the response over and the request's context is gone.                    *)
(***************************************************************************)
RetryIdle ==
  /\ pc = "start"
  /\ max_retries = default_max_retries
  /\ attempt = 0
  /\ api_calls = 0
  /\ seen = <<>>
  /\ sleeps = <<>>
  /\ ret = <<>>

NoRequest ==
  [session |-> "", request |-> GetRequest, client |-> <<>>, admitted |-> FALSE,
   before |-> <<>>, prior |-> <<>>, first |-> FALSE]

NoResponse == Json(0, "")

AppStart ==
  /\ session = [s \in Sessions |-> <<>>]
  /\ request_timestamps = <<>>
  /\ search_history = <<>>
  /\ db_clock = 0
  /\ req = NoRequest
  /\ resp = NoResponse
  /\ sent = <<>>
  /\ store_ops = NoOps
  /\ log = [s \in Sessions |-> <<>>]
  /\ callers = {}
  /\ inflight = <<>>
  /\ accepted = <<>>
  /\ threads = [t \in Threads |-> ThreadIdle]

Init ==
  /\ OPENAI_API_KEY \in ApiKeys
  /\ AppStart
  /\ RetryIdle

Idle == resp = NoResponse

StartTopic(s, topic, level, client) ==
  /\ Idle
  /\ Serve(s, MainRequest(topic, level), client, WINDOW_SECONDS)

AskFollowup(s, question, topic, level, original_result, client) ==
  /\ Idle
  /\ Serve(s, FollowupRequest(question, topic, level, original_result), client,
           WINDOW_SECONDS)

ClearConversation(s) ==
  /\ Idle
  /\ Serve(s, ClearRequest, <<>>, WINDOW_SECONDS)

Visit(s) ==
  /\ Idle
  /\ Serve(s, GetRequest, <<>>, WINDOW_SECONDS)

Deliver ==
  /\ ~Idle
  /\ req' = NoRequest
  /\ resp' = NoResponse
  /\ sent' = <<>>
  /\ store_ops' = NoOps
  /\ UNCHANGED <<OPENAI_API_KEY, session, request_timestamps, search_history,
                 db_clock, log, callers, inflight, accepted, threads,
                 retry_vars>>

\* Spec: two clients, every topic, one question besides the empty one, few
\* exchanges; follow-ups come from the page of an "adult" explanation
SpecQuestions == { <<" ">>, <<"W", "h", "y", "?">> }

SpecFollowupLevels == {LevelAdult}

Next ==
  \/ \E s \in Sessions, t \in RawTopics, l \in Levels, c \in Clients :
       StartTopic(s, t, l, c)
  \/ \E s \in Sessions, q \in SpecQuestions, t \in RawTopics,
        l \in SpecFollowupLevels, r \in OriginalResults, c \in Clients :
       /\ AskFollowup(s, q, t, l, r, c)
       /\ stored_in(Sessions)' <= MaxStored
  \/ \E s \in Sessions : ClearConversation(s)
  \/ \E s \in Sessions : Visit(s)
  \/ Deliver

vars == <<OPENAI_API_KEY, app_vars, retry_vars>>

Spec == Init /\ [][Next]_vars

(***************************************************************************)
(* SpecDeep: one client on one topic, two questions, longer conversations  *)
(***************************************************************************)
DeepSession == "s1"

DeepTopic == <<" ", "a", "b">>

DeepQuestions == { <<"W", "h", "y", "?">>, <<"<", "H", "o", "w", ">">> }

DeepLevels == {LevelSimple, LevelTeen}

\* a client that answers, one that is refused, one whose API fails
DeepClients ==
  { Always(Returns(TextMarkup)), Always(Raises("InvalidRequestError")),
    Always(Raises("APIError")) }

NextDeep ==
  \/ \E l \in DeepLevels, c \in DeepClients :
       StartTopic(DeepSession, DeepTopic, l, c)
  \/ \E q \in DeepQuestions, l \in DeepLevels, c \in DeepClients :
       /\ AskFollowup(DeepSession, q, DeepTopic, l, <<>>, c)
       /\ stored_in({DeepSession})' <= MaxDeep
  \/ ClearConversation(DeepSession)
  \/ Deliver

SpecDeep == Init /\ [][NextDeep]_vars

(***************************************************************************)
(* SpecConcurrent: the session is Flask's default one, a signed cookie     *)
(* (app.secret_key, line 18): the client sends its cookie with a request,  *)
(* explain works on the session read from that cookie, and the response    *)
(* sets the cookie anew when the session was modified.  A client may send  *)
(* a request before it has the response of the one before.                 *)
(***************************************************************************)
ConcurrentSession == "s1"

ConcurrentTopic == <<" ", "a", "b">>

\* a client that answers, and one whose API fails
ConcurrentClients ==
  { Always(Returns(TextMarkup)), Always(Raises("APIError")) }

\* the client sends a request, with the cookie it holds
Send(s, request, client) ==
  /\ Len(inflight) < MaxInFlight
  /\ inflight' = Append(inflight,
                        [session |-> s, request |-> request, client |-> client,
                         cookie |-> session[s], answered |-> FALSE,
                         modified |-> FALSE, set_cookie |-> <<>>])
  /\ UNCHANGED <<OPENAI_API_KEY, session, request_timestamps, search_history,
                 db_clock, req, resp, sent, store_ops, log, callers, accepted, threads,
                 retry_vars>>

\* the server handles the i-th request in flight, on the session of its
\* cookie: decorated_function around explain, as in Serve
Answer(i, d) ==
  LET m     == inflight[i]
      limit == rate_limit(request_timestamps, RATE_LIMIT_REQUESTS) IN
  /\ ~m.answered
  /\ request_timestamps' = aged(limit.timestamps, d)
  /\ req' = [session |-> m.session, request |-> m.request, client |-> m.client,
             admitted |-> limit.admitted,
             before |-> m.cookie,
             prior |-> log_get(log[m.session], topic_of(m.request)),
             first |-> m.session \notin callers]
  /\ callers' = callers \cup {m.session}
  /\ IF limit.admitted
     THEN \E out \in explain(m.cookie, search_history, db_clock, m.request, m.client) :
            /\ inflight' = [inflight EXCEPT ![i] =
                              [m EXCEPT !.answered = TRUE,
                                        !.modified = out.store_ops.set + out.store_ops.del > 0,
                                        !.set_cookie = out.session]]
            /\ search_history' = ranked_rows(out.rows, later(db_clock, d))
            /\ db_clock' = ranked_clock(out.rows, later(db_clock, d))
            /\ resp' = out.resp
            /\ sent' = out.sent
            /\ store_ops' = out.store_ops
            /\ log' = [log EXCEPT ![m.session] =
                         recorded(log[m.session], topic_of(m.request), out)]
     ELSE /\ inflight' = [inflight EXCEPT ![i] = [m EXCEPT !.answered = TRUE]]
          /\ search_history' = ranked_rows(search_history, later(db_clock, d))
          /\ db_clock' = ranked_clock(search_history, later(db_clock, d))
          /\ resp' = RateLimitExceeded
          /\ sent' = <<>>
          /\ store_ops' = NoOps
          /\ log' = log
  /\ accepted' = still_counted(accepted, limit.admitted, d)
  /\ UNCHANGED <<OPENAI_API_KEY, session, threads, retry_vars>>

\* the inflight list without its i-th entry
without_entry(list, i) == SubSeq(list, 1, i - 1) \o SubSeq(list, i + 1, Len(list))

\* the client gets the response of its i-th request in flight, and keeps the
\* cookie the response sets
Receive(i) ==
  LET m == inflight[i] IN
  /\ m.answered
  /\ session' = [session EXCEPT ![m.session] =
                   IF m.modified THEN m.set_cookie ELSE @]
  /\ inflight' = without_entry(inflight, i)
  /\ UNCHANGED <<OPENAI_API_KEY, request_timestamps, search_history, db_clock,
                 req, resp, sent, store_ops, log, callers, accepted, threads,
                 retry_vars>>

\* the exchanges appended for the topic by the requests handled so far
appended_so_far(s, topic) == Len(log_get(log[s], sanitize_input(topic)))

NextConcurrent ==
  \/ \E q \in DeepQuestions, c \in ConcurrentClients :
       /\ appended_so_far(ConcurrentSession, ConcurrentTopic) < MaxStored
       /\ Send(ConcurrentSession,
               FollowupRequest(q, ConcurrentTopic, LevelSimple, <<>>), c)
  \/ \E i \in DOMAIN inflight : Answer(i, WINDOW_SECONDS)
  \/ \E i \in DOMAIN inflight : Receive(i)

SpecConcurrent == Init /\ [][NextConcurrent]_vars

(***************************************************************************)
(* SpecInput: one client submits topics, among them one too long           *)
(***************************************************************************)
InputSession == "s1"

\* a topic of MAX_TOPIC_LENGTH + 1 characters
OversizedTopic == [i \in 1..(MAX_TOPIC_LENGTH + 1) |-> "x"]

\* a topic of exactly MAX_TOPIC_LENGTH characters
FullTopic == [i \in 1..MAX_TOPIC_LENGTH |-> "x"]

\* "'" then 199 times "x" then "\"<y>z ": 201 characters are left when the
\* quotes and brackets are gone and the ends are stripped
QuotedTopic ==
  <<"'">> \o [i \in 1..(MAX_TOPIC_LENGTH - 1) |-> "x"]
    \o <<"\"", "<", "y", ">", "z", " ">>

\* 199 times "x" then " yz": the character at position MAX_TOPIC_LENGTH is a
\* space
SpacedTopic == [i \in 1..(MAX_TOPIC_LENGTH - 1) |-> "x"] \o <<" ", "y", "z">>

\* "<>" and "<a>" (too short once sanitized) and two topics that are too long
InputTopics == { <<"<", ">">>, <<"<", "a", ">">>, QuotedTopic, SpacedTopic }

\* the topics of the follow-ups: one too long, one of just the length allowed
InputFollowupTopics == {QuotedTopic, FullTopic}

\* "Why?", and a question of more than MAX_TOPIC_LENGTH characters
InputQuestions == { <<"W", "h", "y", "?">>, <<"<">> \o OversizedTopic \o <<"?">> }

\* a client that answers and one whose API fails
InputClients == { Always(Returns(TextMarkup)), Always(Raises("APIError")) }

NextInput ==
  \/ \E t \in InputTopics, c \in InputClients :
       StartTopic(InputSession, t, LevelSimple, c)
  \/ \E q \in InputQuestions, t \in InputFollowupTopics, c \in InputClients :
       /\ AskFollowup(InputSession, q, t, LevelSimple, <<>>, c)
       /\ stored_in(Sessions)' <= MaxStored
  \/ Visit(InputSession)
  \/ Deliver

SpecInput == Init /\ [][NextInput]_vars
(***************************************************************************)
(* make_openai_request, one statement at a time                            *)
(***************************************************************************)
InitRetry ==
  /\ OPENAI_API_KEY \in ApiKeys
  /\ max_retries \in 0..MaxRetriesArg
  /\ pc = "start"
  /\ attempt = 0
  /\ api_calls = 0
  /\ seen = <<>>
  /\ sleeps = <<>>
  /\ ret = <<>>
  /\ AppStart

\* lines 128-129: no key, return at once
ReturnNotConfigured ==
  /\ pc = "start"
  /\ unconfigured
  /\ pc' = "returned"
  /\ ret' = MsgNotConfigured
  /\ UNCHANGED <<OPENAI_API_KEY, max_retries, attempt, api_calls, seen, sleeps>>
  /\ UNCHANGED app_vars

\* line 131: enter the loop
EnterLoop ==
  /\ pc = "start"
  /\ ~unconfigured
  /\ pc' = "loop"
  /\ attempt' = 0
  /\ UNCHANGED <<OPENAI_API_KEY, max_retries, api_calls, seen, sleeps, ret>>
  /\ UNCHANGED app_vars

\* lines 132-162: one iteration, the client doing `outcome`
Attempt(outcome) ==
  /\ pc = "loop"
  /\ attempt < max_retries
  /\ api_calls' = api_calls + 1
  /\ seen' = Append(seen, outcome)
  /\ LET r == attempt_body(outcome, attempt, max_retries) IN
       /\ sleeps' = sleeps \o r.sleep
       /\ pc' = CASE r.exit = "return" -> "returned"
                  [] r.exit = "continue" -> "loop"
                  [] OTHER -> "raised"
       /\ ret' = IF r.exit = "return" THEN r.value ELSE ret
       /\ attempt' = IF r.exit = "continue" THEN attempt + 1 ELSE attempt
  /\ UNCHANGED <<OPENAI_API_KEY, max_retries>>
  /\ UNCHANGED app_vars

\* line 164: the loop ran out
ReturnExhausted ==
  /\ pc = "loop"
  /\ attempt >= max_retries
  /\ pc' = "returned"
  /\ ret' = MsgExhausted
  /\ UNCHANGED <<OPENAI_API_KEY, max_retries, attempt, api_calls, seen, sleeps>>
  /\ UNCHANGED app_vars

NextRetry ==
  \/ ReturnNotConfigured
  \/ EnterLoop
  \/ \E outcome \in Outcomes : Attempt(outcome)
  \/ ReturnExhausted

SpecRetry == InitRetry /\ [][NextRetry]_vars

(***************************************************************************)
(* SpecRate: requests of one client handled one at a time, at any pace.    *)
(* A request is handled in an instant; Tick lets TickSeconds pass.         *)
(***************************************************************************)
TickSeconds == 30

RateSession == "s1"

RateTopic == <<" ", "a", "b">>

RateClient == Always(Returns(TextMarkup))

\* TickSeconds pass: the timestamps age, the clock of the database moves on
Tick ==
  /\ request_timestamps' = aged(request_timestamps, TickSeconds)
  /\ accepted' = still_counted(accepted, FALSE, TickSeconds)
  /\ search_history' = ranked_rows(search_history, later(db_clock, TickSeconds))
  /\ db_clock' = ranked_clock(search_history, later(db_clock, TickSeconds))
  /\ UNCHANGED <<OPENAI_API_KEY, session, req, resp, sent, store_ops, log,
                 callers, inflight, threads, retry_vars>>

\* GET /
RateVisit ==
  /\ Idle
  /\ Serve(RateSession, GetRequest, <<>>, 0)

\* POST / with a topic
RateStartTopic ==
  /\ Idle
  /\ Serve(RateSession, MainRequest(RateTopic, LevelSimple), RateClient, 0)

NextRate ==
  \/ RateVisit
  \/ RateStartTopic
  \/ Deliver
  \/ Tick

SpecRate == Init /\ [][NextRate]_vars

\* the same, with time that goes on and a client that keeps sending requests
\* and takes the responses
SpecRateLive ==
  /\ Init
  /\ [][NextRate]_vars
  /\ WF_vars(Tick)
  /\ WF_vars(RateVisit)
  /\ WF_vars(Deliver)

(***************************************************************************)
(* SpecThreads: decorated_function (lines 97-107) run by several threads   *)
(* at once, one statement at a time, all within one second.  The list      *)
(* comprehension of line 101 builds a new list and then binds the global   *)
(* name to it; lines 103 and 106 each read the global name again.          *)
(***************************************************************************)
\* line 99: a request arrives and a thread starts on it
Enter(t) ==
  /\ threads[t].pc = "idle"
  /\ Len(accepted) <= RATE_LIMIT_REQUESTS
  /\ threads' = [threads EXCEPT ![t] = [pc |-> "clean", cleaned |-> <<>>]]
  /\ UNCHANGED <<OPENAI_API_KEY, session, request_timestamps, search_history,
                 db_clock, req, resp, sent, store_ops, log, callers, inflight,
                 accepted, retry_vars>>

\* line 101, right-hand side: the list of the timestamps still in the window
Filter(t) ==
  /\ threads[t].pc = "clean"
  /\ threads' = [threads EXCEPT ![t] =
                   [pc |-> "store",
                    cleaned |-> SelectSeq(request_timestamps,
                                          LAMBDA age : age < WINDOW_SECONDS)]]
  /\ UNCHANGED <<OPENAI_API_KEY, session, request_timestamps, search_history,
                 db_clock, req, resp, sent, store_ops, log, callers, inflight,
                 accepted, retry_vars>>

\* line 101, assignment: the global name is bound to that list
Store(t) ==
  /\ threads[t].pc = "store"
  /\ request_timestamps' = threads[t].cleaned
  /\ threads' = [threads EXCEPT ![t] = [pc |-> "check", cleaned |-> <<>>]]
  /\ UNCHANGED <<OPENAI_API_KEY, session, search_history, db_clock, req, resp,
                 sent, store_ops, log, callers, inflight, accepted, retry_vars>>

\* lines 103-104: the test, and the 429 response
Check(t) ==
  /\ threads[t].pc = "check"
  /\ IF Len(request_timestamps) >= RATE_LIMIT_REQUESTS
     THEN /\ threads' = [threads EXCEPT ![t] = ThreadIdle]
          /\ req' = [session |-> RateSession, request |-> GetRequest,
                     client |-> <<>>, admitted |-> FALSE,
                     before |-> session[RateSession], prior |-> <<>>,
                     first |-> RateSession \notin callers]
          /\ resp' = RateLimitExceeded
     ELSE /\ threads' = [threads EXCEPT ![t].pc = "append"]
          /\ UNCHANGED <<req, resp>>
  /\ UNCHANGED <<OPENAI_API_KEY, session, request_timestamps, search_history,
                 db_clock, sent, store_ops, log, callers, inflight, accepted,
                 retry_vars>>

\* lines 106-107: the timestamp is appended and the handler runs (GET /)
AppendAndRun(t) ==
  /\ threads[t].pc = "append"
  /\ request_timestamps' = Append(request_timestamps, 0)
  /\ accepted' = Append(accepted, 0)
  /\ threads' = [threads EXCEPT ![t] = ThreadIdle]
  /\ req' = [session |-> RateSession, request |-> GetRequest, client |-> <<>>,
             admitted |-> TRUE, before |-> session[RateSession],
             prior |-> <<>>, first |-> RateSession \notin callers]
  /\ callers' = callers \cup {RateSession}
  /\ \E out \in explain(session[RateSession], search_history, db_clock,
                        GetRequest, <<>>) :
       /\ session' = [session EXCEPT ![RateSession] = out.session]
       /\ search_history' = out.rows
       /\ resp' = out.resp
       /\ sent' = out.sent
       /\ store_ops' = out.store_ops
  /\ UNCHANGED <<OPENAI_API_KEY, db_clock, log, inflight, retry_vars>>

NextThreads ==
  \/ \E t \in Threads : Enter(t)
  \/ \E t \in Threads : Filter(t)
  \/ \E t \in Threads : Store(t)
  \/ \E t \in Threads : Check(t)
  \/ \E t \in Threads : AppendAndRun(t)

SpecThreads == Init /\ [][NextThreads]_vars

(***************************************************************************)
(* SpecHistory: one client posts topic after topic, new ones and ones      *)
(* posted before, some within the same second of the database clock and    *)
(* some a minute apart, until the history has been full and topics have    *)
(* been dropped from it.                                                   *)
(***************************************************************************)
\* how many topics there are to post, and how many pairs of rows of the table
\* may bear the same timestamp
MaxTopics == 11

MaxTies == 1

HistorySession == "s1"

HistoryClient == Always(Raises("APIError"))

\* "ta", "tb", ... : the i-th topic
HistoryLetters == <<"a", "b", "c", "d", "e", "f", "g", "h", "i", "j", "k", "l", "m">>

HistoryTopic(i) == <<"t", HistoryLetters[i]>>

topic_number(topic) == CHOOSE i \in 1..Len(HistoryLetters) : HistoryTopic(i) = topic

\* the topics in the table, by number
numbers_in(rows) == {topic_number(rows[i].topic) : i \in DOMAIN rows}

\* the pairs of rows inserted within the same second of the database clock
ties(rows) ==
  {p \in (DOMAIN rows) \X (DOMAIN rows) :
     p[1] < p[2] /\ rows[p[1]].timestamp = rows[p[2]].timestamp}

\* POST / with the i-th topic; the next request comes d seconds later
Post(i, d) ==
  /\ Idle
  /\ Serve(HistorySession, MainRequest(HistoryTopic(i), LevelSimple),
           HistoryClient, d)
  /\ d = 0 => Cardinality(ties(search_history')) < MaxTies

\* a topic not posted before: they are posted in the order of their numbers
PostNew(d) ==
  \E i \in 1..MaxTopics :
    /\ i = Max(numbers_in(search_history) \cup {0}) + 1
    /\ Post(i, d)

\* the first of the topics in the table, again
PostAgain(d) ==
  /\ search_history # <<>>
  /\ Post(Min(numbers_in(search_history)), d)

\* the seconds to the next request: none, or a full window
HistoryGaps == {0, WINDOW_SECONDS}

NextHistory ==
  \/ \E d \in HistoryGaps : PostNew(d)
  \/ \E d \in HistoryGaps : PostAgain(d)
  \/ Deliver

SpecHistory == Init /\ [][NextHistory]_vars

(***************************************************************************)
(* What the properties below speak of                                      *)
(***************************************************************************)
\* a request has been handled by explain and its response is at hand
Handled == resp # NoResponse /\ req.admitted

IsFollowup ==
  /\ Handled
  /\ req.request.method = "POST"
  /\ "followup_question" \in DOMAIN req.request.form
  /\ "clear_conversation" \notin DOMAIN req.request.form

IsStartTopic ==
  /\ Handled
  /\ req.request.method = "POST"
  /\ "topic" \in DOMAIN req.request.form
  /\ "followup_question" \notin DOMAIN req.request.form
  /\ "clear_conversation" \notin DOMAIN req.request.form

IsClear ==
  /\ Handled
  /\ req.request.method = "POST"
  /\ "clear_conversation" \in DOMAIN req.request.form

\* the question and the topic of the request, sanitized
AskedQuestion ==
  sanitize_input(form_get(req.request.form, "followup_question", <<>>))

AskedTopic == topic_of(req.request)

\* a follow-up with a question and a topic
ValidFollowup == IsFollowup /\ AskedQuestion # <<>> /\ AskedTopic # <<>>

\* the failures the loop of make_openai_request tries again after
Retryable == {"RateLimitError", "Exception"}

\* the attempt of a completion request that ends it with a content, if any:
\* the first "ok" among the attempts made, all before it retryable failures
succeeding_attempts(script) ==
  { i \in 1..default_max_retries :
      /\ i <= Len(script)
      /\ script[i].kind = "ok"
      /\ \A j \in 1..(i - 1) : script[j].kind \in Retryable }

completion_succeeds(script) == ~unconfigured /\ succeeding_attempts(script) # {}

completion_content(script) == script[Min(succeeding_attempts(script))].content

AnswerSucceeded == ValidFollowup /\ completion_succeeds(req.client["answer"])

AnswerFailed == ValidFollowup /\ ~completion_succeeds(req.client["answer"])

\* the messages make_openai_request returns for a failed completion
FailureMessages ==
  {MsgNotConfigured, MsgRateLimited, MsgApiError, MsgInvalidRequest,
   MsgUnexpected, MsgExhausted}

\* the conversation of the request's topic: as the session held it when the
\* request arrived, and as the session holds it now
ConversationBefore == session_get(req.before, session_key(AskedTopic))

ConversationNow == session_get(session[req.session], session_key(AskedTopic))

\* the user message of the answer completion (the fourth request made: the
\* three of generate_explanation come first) and the transcript in it,
\* between "Original topic: {topic}" and "\nCurrent follow-up question: ..."
AnswerUserMessage == sent[4].user

Transcript == SubSeq(AnswerUserMessage, 3, Len(AnswerUserMessage) - 2)

is_prefix(old, new) == Len(old) <= Len(new) /\ SubSeq(new, 1, Len(old)) = old

(***************************************************************************)
(* Properties                                                              *)
(***************************************************************************)

\* C1: a follow-up whose answer completion fails, whatever the kind of
\* failure, appends no exchange: the session holds after the request exactly
\* what it held before, and no stored answer is a failure message.
C1_FailedFollowupAppendsNothing ==
  AnswerFailed =>
    /\ session[req.session] = req.before
    /\ \A s \in Sessions : \A k \in DOMAIN session[s] :
         \A i \in DOMAIN session[s][k] :
           session[s][k][i].answer \notin FailureMessages

\* C2: a follow-up with a question and a topic whose answer completion
\* succeeds appends exactly one exchange to the end of the conversation: the
\* new conversation is the previous one followed by (the sanitized question,
\* the cleaned completion text), and the response shows the stored one.
C2_SuccessfulFollowupAppendsOne ==
  AnswerSucceeded =>
    /\ ConversationNow =
         Append(ConversationBefore,
                Exchange(AskedQuestion,
                         clean_answer(strip(completion_content(req.client["answer"])))))
    /\ resp.followup_conversation = ConversationNow

\* C3: a main-topic request for a topic of sanitized length at least 2 leaves
\* the conversation of (session, topic) empty, at every level, whatever it
\* held before and whether or not the explanation completion succeeded.
C3_StartTopicEmptiesConversation ==
  (IsStartTopic /\ Len(AskedTopic) >= 2) =>
    /\ ConversationNow = <<>>
    /\ \A k \in DOMAIN session[req.session] : k # session_key(AskedTopic)

\* a topic is started again after a follow-up was stored for it, and the
\* explanation completion fails
C3_Witness ==
  /\ IsStartTopic
  /\ Len(AskedTopic) >= 2
  /\ ConversationBefore # <<>>
  /\ ~completion_succeeds(req.client["explanation"])
  /\ ConversationNow = <<>>

\* C4: the response of a follow-up whose answer completion failed carries the
\* failure message: as the explanation, as an answer of the conversation
\* shown, or among the suggested questions or related topics.
C4_FailedFollowupShowsMessage ==
  AnswerFailed =>
    LET message == make_openai_request(req.client["answer"], default_max_retries) IN
    \/ resp.result = message
    \/ \E i \in DOMAIN resp.followup_conversation :
         resp.followup_conversation[i].answer = message
    \/ \E i \in DOMAIN resp.followup_questions :
         resp.followup_questions[i] = message
    \/ \E i \in DOMAIN resp.related_topics : resp.related_topics[i] = message

\* C5: against a client that is rate-limited on every attempt,
\* make_openai_request with the default max_retries makes exactly MAX_RETRIES
\* calls, goes on while fewer were made, then returns the "Service
\* temporarily unavailable" message, and raises nothing.
C5_RateLimitedThreeAttempts ==
  ( /\ ~unconfigured
    /\ max_retries = default_max_retries
    /\ \A i \in DOMAIN seen : seen[i].kind = "RateLimitError" ) =>
    /\ pc # "raised"
    /\ api_calls <= MAX_RETRIES
    /\ pc = "loop" => (attempt = api_calls /\ api_calls < MAX_RETRIES)
    /\ pc = "returned" => (api_calls = MAX_RETRIES /\ ret = MsgRateLimited)

C5_Witness ==
  /\ ~unconfigured
  /\ max_retries = default_max_retries
  /\ pc = "returned"
  /\ Len(seen) = MAX_RETRIES
  /\ \A i \in DOMAIN seen : seen[i].kind = "RateLimitError"
  /\ sleeps = <<1, 2>>
  /\ ret = MsgRateLimited

\* C6: whatever the client does on each attempt, make_openai_request makes at
\* most max_retries attempts, every attempt before the last one made was a
\* retryable failure, a success or non-retryable failure ends the call, and
\* the call ends returning a string (a stripped content or one of the failure
\* messages), never raising.
C6_BoundedRetriesReturnString ==
  /\ pc # "raised"
  /\ api_calls = Len(seen)
  /\ api_calls <= max_retries
  /\ \A i \in 1..(Len(seen) - 1) : seen[i].kind \in Retryable
  /\ (seen # <<>> /\ seen[Len(seen)].kind \notin Retryable) => pc = "returned"
  /\ pc = "loop" => (attempt = api_calls /\ attempt <= max_retries)
  /\ pc = "returned" =>
       /\ ret \in {strip(c) : c \in Contents} \cup FailureMessages
       /\ \A i \in DOMAIN ret : ret[i] \in STRING

\* a rate limit, then another exception, then a content
C6_Witness ==
  /\ pc = "returned"
  /\ Len(seen) = 3
  /\ seen[1].kind = "RateLimitError"
  /\ seen[2].kind = "Exception"
  /\ seen[3] = Returns(TextMarkup)
  /\ sleeps = <<1, 1>>
  /\ ret = strip(TextMarkup)

\* C7: the transcript of a follow-up holds every exchange appended to the
\* conversation so far, once each and in the order appended, the n-th as
\* "Qn: question\nAn: answer\n\n" with n counted from 1; without exchanges
\* there is no transcript.
C7_TranscriptNumberedInOrder ==
  ValidFollowup =>
    IF req.prior = <<>> THEN Transcript = <<>>
    ELSE /\ Len(Transcript) = 1 + 9 * Len(req.prior)
         /\ Transcript[1] = Lit("\n\nPrevious conversation:\n")
         /\ \A n \in DOMAIN req.prior :
              SubSeq(Transcript, 9 * n - 7, 9 * n + 1) =
                << Lit("Q"), Num(n), Lit(": "), Str(req.prior[n].question),
                   Lit("\nA"), Num(n), Lit(": "), Str(req.prior[n].answer),
                   Lit("\n\n") >>

\* a fourth question after three exchanges, not all alike
C7_Witness ==
  /\ ValidFollowup
  /\ Len(req.prior) = 3
  /\ req.prior[1] # req.prior[2]
  /\ req.prior[2] # req.prior[3]
  /\ Len(Transcript) = 28

\* C8: a follow-up whose question is empty once sanitized makes no call of
\* the session (no read, no write) and no completion request.
C8_EmptyQuestionTouchesNothing ==
  (IsFollowup /\ AskedQuestion = <<>>) =>
    /\ store_ops = NoOps
    /\ sent = <<>>

\* the exchanges a transcript shows, in its order
transcript_exchanges(transcript) ==
  [n \in 1..((Len(transcript) - 1) \div 9) |->
     Exchange(transcript[9 * n - 4].str, transcript[9 * n].str)]

\* C9: the exchanges in the transcript of a follow-up on topic T by client S
\* are exactly those appended for (S, T) before the request and not dropped
\* since: nothing of another topic or of another client is in it.
C9_TranscriptOfOwnConversation ==
  ValidFollowup =>
    /\ Len(Transcript) = IF req.prior = <<>> THEN 0 ELSE 1 + 9 * Len(req.prior)
    /\ transcript_exchanges(Transcript) = req.prior

\* a follow-up on a conversation that holds an exchange, while another
\* topic of the same client, or a topic of the other client, holds a
\* different one
C9_Witness ==
  /\ ValidFollowup
  /\ req.prior # <<>>
  /\ transcript_exchanges(Transcript) = req.prior
  /\ \E s \in Sessions : \E t \in DOMAIN log[s] :
       /\ <<s, t>> # <<req.session, AskedTopic>>
       /\ log[s][t] # <<>>
       /\ log[s][t] # req.prior

\* C10: a request leaves each conversation of its client no longer than it
\* found it, except a follow-up whose answer completion succeeded, which
\* makes the conversation of its topic at most one exchange longer and keeps
\* the exchanges it found as a prefix: so no conversation ever holds more
\* exchanges than successful follow-ups were made on it since it was last
\* dropped.
C10_OnlySuccessfulFollowupsGrow ==
  Handled =>
    \A k \in DOMAIN session[req.session] :
      LET old == session_get(req.before, k)
          new == session[req.session][k] IN
      /\ Len(new) <= Len(old) +
                     (IF AnswerSucceeded /\ k = session_key(AskedTopic)
                      THEN 1 ELSE 0)
      /\ AnswerSucceeded => is_prefix(old, new)

\* C11: two follow-ups of one client on one topic never overlap so as to
\* lose an exchange: once the client has the response of every request it
\* sent, its session holds every exchange that a follow-up whose answer
\* completion succeeded has appended.
C11_NoLostExchange ==
  inflight = <<>> =>
    \A s \in Sessions : \A t \in DOMAIN log[s] :
      \A i \in DOMAIN log[s][t] :
        log[s][t][i].answer \notin FailureMessages =>
          \E j \in DOMAIN session_get(session[s], session_key(t)) :
            session_get(session[s], session_key(t))[j] = log[s][t][i]

\* C12: nothing of another session reaches a request: the first request a
\* session makes is let through by the rate limiter and is shown no recent
\* search but its own, as when no other session has made any request.
C12_FirstRequestSeesNoOtherSession ==
  (resp # NoResponse /\ req.first) =>
    /\ req.admitted
    /\ \A i \in DOMAIN resp.recent_searches :
         IsStartTopic /\ resp.recent_searches[i] = AskedTopic

\* C13: a request to clear answers with the same success and leaves the
\* session without any conversation, whatever the session held: so a second
\* one in a row does as the first, and with nothing to clear it is no error.
C13_ClearIsIdempotent ==
  IsClear =>
    /\ resp = Json(200, "status: success")
    /\ \A k \in DOMAIN session[req.session] : ~startswith(k, KeyPrefix)
    /\ sent = <<>>

\* a client that has made requests before clears while its session holds no
\* conversation
C13_Witness ==
  /\ IsClear
  /\ ~req.first
  /\ req.before = <<>>
  /\ store_ops.del = 0
  /\ resp.status = 200

\* the topic of a main-topic request as typed, harmful characters and outer
\* whitespace removed, at its full length
TypedTopic ==
  strip(SelectSeq(form_get(req.request.form, "topic", <<>>),
                  LAMBDA c : c \notin HarmfulChars))

\* "Error:"
ErrorMark == <<"E", "r", "r", "o", "r", ":">>

\* C14: a main-topic request whose topic is longer than MAX_TOPIC_LENGTH
\* characters is answered with an error message and makes no completion
\* request.
C14_OversizedTopicRejected ==
  (IsStartTopic /\ Len(TypedTopic) > MAX_TOPIC_LENGTH) =>
    /\ startswith(resp.result, ErrorMark)
    /\ sent = <<>>

\* C15: a main-topic request whose sanitized topic is empty or shorter than
\* two characters is answered with an "Error:" message, makes no completion
\* request, and leaves the search history and every session as they were.
C15_ShortTopicRejected ==
  [][ (IsStartTopic' /\ Len(AskedTopic') < 2) =>
        /\ startswith(resp'.result, ErrorMark)
        /\ sent' = <<>>
        /\ search_history' = search_history
        /\ session' = session ]_vars

\* a one-character topic is refused while the history holds a search and the
\* client's session a conversation
C15_Witness ==
  /\ IsStartTopic
  /\ Len(AskedTopic) = 1
  /\ resp.result = ErrTopicTooShort
  /\ sent = <<>>
  /\ search_history # <<>>
  /\ req.before # <<>>
  /\ session[req.session] = req.before

\* C16: an attempt that fails with InvalidRequestError is the last one: the
\* call has returned the invalid-request message, no attempt follows it, and
\* the only waits made are the ones of the attempts before it (one each).
C16_InvalidRequestReturnsAtOnce ==
  \A i \in DOMAIN seen :
    seen[i].kind = "InvalidRequestError" =>
      /\ i = Len(seen)
      /\ api_calls = i
      /\ pc = "returned"
      /\ ret = MsgInvalidRequest
      /\ Len(sleeps) = i - 1

\* a rate limit, waited for, then an invalid request
C16_Witness ==
  /\ Len(seen) = 2
  /\ seen[1].kind = "RateLimitError"
  /\ seen[2].kind = "InvalidRequestError"
  /\ max_retries = MaxRetriesArg
  /\ pc = "returned"
  /\ sleeps = <<1>>
  /\ ret = MsgInvalidRequest

\* C17: with no API key (the variable unset or empty, so that the key is the
\* placeholder or the empty string), make_openai_request calls the client
\* zero times, never enters the loop, never sleeps, and what it returns is
\* the not-configured message.
C17_UnconfiguredNoAttempt ==
  OPENAI_API_KEY \in {"", "your-api-key-here"} =>
    /\ api_calls = 0
    /\ seen = <<>>
    /\ sleeps = <<>>
    /\ pc \in {"start", "returned"}
    /\ pc = "returned" => ret = MsgNotConfigured

\* the placeholder key, a call allowed three attempts, returned
C17_Witness ==
  /\ OPENAI_API_KEY = "your-api-key-here"
  /\ max_retries = default_max_retries
  /\ pc = "returned"
  /\ ret = MsgNotConfigured
  /\ api_calls = 0
  /\ sleeps = <<>>

\* the failures that pass with time: a server-side API error, and whatever
\* else the request raises (a timeout, a lost connection)
Transient == {"APIError", "Exception"}

\* the messages that tell the user to try again, naming no cause
RetryLaterMessages == {MsgApiError, MsgUnexpected}

\* C18: when every attempt of a call that is allowed at least one has failed
\* with a transient error and the call has returned, the client was called
\* exactly max_retries times, a wait was made between every two consecutive
\* attempts, all waits being the same, and a retry-later message is returned.
C18_TransientRetriedThenGeneric ==
  ( /\ ~unconfigured
    /\ max_retries >= 1
    /\ seen # <<>>
    /\ \A i \in DOMAIN seen : seen[i].kind \in Transient
    /\ pc = "returned" ) =>
    /\ api_calls = max_retries
    /\ Len(sleeps) = max_retries - 1
    /\ \A i, j \in DOMAIN sleeps : sleeps[i] = sleeps[j]
    /\ ret \in RetryLaterMessages

\* C19: while every attempt made has been rate limited, the first wait is 1
\* second and every later wait is twice the one before it (2^k after failed
\* attempt k, counted from 0); a wait follows every failed attempt except
\* the last one the call is allowed; and with max_retries = MAX_RETRIES a
\* call that has returned has waited exactly 1 then 2 seconds.
C19_BackoffDoubles ==
  ( /\ ~unconfigured
    /\ \A i \in DOMAIN seen : seen[i].kind = "RateLimitError" ) =>
    /\ sleeps # <<>> => sleeps[1] = 1
    /\ \A k \in 1..(Len(sleeps) - 1) : sleeps[k + 1] = 2 * sleeps[k]
    /\ Len(sleeps) = Cardinality({i \in DOMAIN seen : i < max_retries})
    /\ (max_retries = MAX_RETRIES /\ pc = "returned") => sleeps = <<1, 2>>

\* four attempts allowed, all rate limited: waits of 1, 2 and 4 seconds and
\* none after the fourth
C19_Witness ==
  /\ ~unconfigured
  /\ max_retries = 4
  /\ Len(seen) = 4
  /\ \A i \in DOMAIN seen : seen[i].kind = "RateLimitError"
  /\ pc = "returned"
  /\ sleeps = <<1, 2, 4>>

\* the questions of the conversation the request found, then its own
AskedSoFar ==
  [i \in 1..Len(ConversationBefore) |-> ConversationBefore[i].question]
    \o <<AskedQuestion>>

is_suffix(end, whole) ==
  /\ Len(end) <= Len(whole)
  /\ SubSeq(whole, Len(whole) - Len(end) + 1, Len(whole)) = end

\* C20: a follow-up whose answer completion succeeds makes a fifth
\* completion request, for new suggested questions, and the user message of
\* that request ends with the list of questions to avoid: one line
\* "- question" for every question of the conversation, in the order asked,
\* the last one being the question just answered.
C20_SuggestionsAvoidAskedQuestions ==
  AnswerSucceeded =>
    /\ Len(sent) = 5
    /\ is_suffix(asked_context(AskedSoFar), sent[5].user)

\* the exchange a follow-up has just appended to the stored conversation
Persisted ==
  /\ ValidFollowup
  /\ Len(ConversationNow) = Len(ConversationBefore) + 1

PersistedAnswer == ConversationNow[Len(ConversationNow)].answer

\* two asterisks on one line: what the patterns of lines 1022-1023 match
has_emphasis(s) ==
  \E i, j \in DOMAIN s :
    /\ i < j
    /\ s[i] = "*"
    /\ s[j] = "*"
    /\ \A k \in i..j : s[k] # "\n"

\* more than one blank line in a row: three newlines in a row
has_blank_run(s) ==
  \E i \in 1..(Len(s) - 2) : s[i] = "\n" /\ s[i + 1] = "\n" /\ s[i + 2] = "\n"

\* C21: the answer of the exchange appended by a follow-up whose answer
\* completion succeeded holds no emphasis markup, no run of more than one
\* blank line, and no whitespace at either end.
C21_PersistedAnswerNormalised ==
  (AnswerSucceeded /\ Persisted) =>
    /\ ~has_emphasis(PersistedAnswer)
    /\ ~has_blank_run(PersistedAnswer)
    /\ PersistedAnswer = strip(PersistedAnswer)

\* the strings a request's form carries as topic and as question
RawTopic ==
  form_get(req.request.form,
           IF "followup_question" \in DOMAIN req.request.form
           THEN "original_topic" ELSE "topic", <<>>)

RawQuestion == form_get(req.request.form, "followup_question", <<>>)

\* at most MAX_TOPIC_LENGTH characters, none of them < > " or '
Bounded(s) ==
  /\ Len(s) <= MAX_TOPIC_LENGTH
  /\ \A i \in DOMAIN s : s[i] \notin {"<", ">", "\"", "'"}

\* the strings put into a prompt
strings_of(prompt) ==
  {prompt[i].str : i \in {j \in DOMAIN prompt : prompt[j].piece = "str"}}

\* the strings put into the messages of the request's completion calls
PromptStrings ==
  UNION {strings_of(sent[k].system) \cup strings_of(sent[k].user) : k \in DOMAIN sent}

\* C22: whatever the form of a request carries, the sanitized topic and the
\* sanitized question have at most 200 characters and hold none of < > " ';
\* so has the topic in every conversation key of the session, and every
\* string put into a prompt other than the level and the stored answers.
C22_SanitizedInputBounded ==
  Handled =>
    /\ Bounded(sanitize_input(RawTopic))
    /\ Bounded(sanitize_input(RawQuestion))
    /\ \A k \in DOMAIN session[req.session] :
         /\ startswith(k, KeyPrefix)
         /\ Bounded(SubSeq(k, Len(KeyPrefix) + 1, Len(k)))
    /\ \A s \in PromptStrings :
         \/ s \in Levels
         \/ \E i \in DOMAIN ConversationBefore : s = ConversationBefore[i].answer
         \/ Bounded(s)

\* a follow-up whose topic and question are both too long and hold quotes
\* or brackets: both are cut to 200 characters, and the exchange is stored
\* under the key of the cut topic
C22_Witness ==
  /\ IsFollowup
  /\ RawTopic = QuotedTopic
  /\ Len(RawQuestion) > MAX_TOPIC_LENGTH + 1
  /\ Len(AskedTopic) = MAX_TOPIC_LENGTH
  /\ Len(AskedQuestion) = MAX_TOPIC_LENGTH
  /\ Persisted
  /\ session_key(AskedTopic) \in DOMAIN session[req.session]
  /\ AskedQuestion \in PromptStrings

\* the limit of the slices of lines 231 and 261
MAX_SUGGESTED == 3

\* C23: the response of every request, whatever its kind and whatever the
\* completions returned, carries at most 3 suggested questions.
C23_AtMostThreeSuggestions ==
  Len(resp.followup_questions) <= MAX_SUGGESTED

\* a follow-up whose suggestions completion returned four lines: the first
\* three are the suggested questions of the response
C23_Witness ==
  /\ IsFollowup
  /\ Persisted
  /\ Len(sent) = 5
  /\ completion_succeeds(req.client["suggestions"])
  /\ Len(stripped_lines(completion_content(req.client["suggestions"]))) = 4
  /\ Len(resp.followup_questions) = MAX_SUGGESTED
  /\ resp.followup_questions =
       SubSeq(stripped_lines(completion_content(req.client["suggestions"])), 1, 3)

\* C24: when the session holds no exchange for the topic of a follow-up, the
\* user message of the answer completion is "Original topic: {topic}"
\* followed at once by "\nCurrent follow-up question: {question}": no
\* "Previous conversation" header and nothing else in between.
C24_NoTranscriptWhenEmpty ==
  (ValidFollowup /\ ConversationBefore = <<>>) =>
    /\ Len(sent) >= 4
    /\ AnswerUserMessage =
         << Lit("Original topic: "), Str(AskedTopic),
            Lit("\nCurrent follow-up question: "), Str(AskedQuestion) >>

\* a first follow-up on one topic by a client whose session holds a
\* conversation on another
C24_Witness ==
  /\ ValidFollowup
  /\ ConversationBefore = <<>>
  /\ req.before # <<>>
  /\ Len(AnswerUserMessage) = 4
  /\ Transcript = <<>>

\* the conversation keys a session holds
conversation_keys(sess) == {k \in DOMAIN sess : startswith(k, KeyPrefix)}

\* C25 as claimed: a request to clear removes the conversation of one topic
\* at most; the conversations the session holds for other topics stay.
C25_ClearAffectsOneTopic ==
  IsClear =>
    Cardinality(conversation_keys(req.before)
                  \ conversation_keys(session[req.session])) <= 1

\* C25 as amended: a request to clear removes the conversations of every
\* topic the requesting session holds, and nothing else: the sessions of the
\* other clients are as they were.
C25_ClearDropsOwnConversations ==
  [][ IsClear' =>
        /\ conversation_keys(session'[req'.session]) = {}
        /\ \A s \in Sessions \ {req'.session} : session'[s] = session[s] ]_vars

\* a client whose session holds the conversations of two topics clears
C25_Witness ==
  /\ IsClear
  /\ Cardinality(conversation_keys(req.before)) = 2
  /\ session[req.session] = <<>>
  /\ store_ops.del = 2

\* the completion calls that yield suggested questions (lines 228 and 258)
\* both fail for the client of the request
SuggestionsFailed ==
  /\ Handled
  /\ sent # <<>>
  /\ ~completion_succeeds(req.client["followups"])
  /\ ~completion_succeeds(req.client["suggestions"])

\* C26: when the completion calls for suggested questions fail, whatever the
\* kind of failure, the response carries no suggested question.
C26_FailedSuggestionsAreEmpty ==
  SuggestionsFailed => resp.followup_questions = <<>>

\* the timestamps of the list that are less than a window old
young(timestamps) == SelectSeq(timestamps, LAMBDA age : age < WINDOW_SECONDS)

\* a step that handles a request
RequestHandled == Idle /\ ~Idle'

\* C27: with requests handled one at a time, neither the timestamp list nor
\* the requests let through within the last 60 seconds are ever more than
\* 10; a request that arrives while 10 requests let through are younger than
\* 60 seconds gets the 429 response, the handler does not run (no completion
\* request, no session operation), no timestamp is added and the sessions
\* and the search history are as before; any other request is let through.
C27_AtMostTenPerWindow ==
  /\ [](/\ Len(request_timestamps) <= RATE_LIMIT_REQUESTS
        /\ Len(accepted) <= RATE_LIMIT_REQUESTS)
  /\ [][ RequestHandled =>
           IF Len(accepted) >= RATE_LIMIT_REQUESTS
           THEN /\ resp' = RateLimitExceeded
                /\ ~req'.admitted
                /\ sent' = <<>>
                /\ store_ops' = NoOps
                /\ young(request_timestamps') = young(request_timestamps)
                /\ accepted' = accepted
                /\ session' = session
                /\ search_history' = search_history
           ELSE /\ req'.admitted
                /\ resp'.status = 200
                /\ Len(accepted') = Len(accepted) + 1 ]_vars

\* a topic is posted while ten requests, made at two moments, are less than
\* a minute old, with a search in the history: it is refused
C27_Witness ==
  /\ resp = RateLimitExceeded
  /\ ~req.admitted
  /\ req.request = MainRequest(RateTopic, LevelSimple)
  /\ Len(accepted) = RATE_LIMIT_REQUESTS
  /\ accepted[1] = TickSeconds
  /\ accepted[RATE_LIMIT_REQUESTS] = 0
  /\ search_history # <<>>

\* C28: with several threads in decorated_function at once, never more than
\* 10 requests are let through within a window, and the timestamp of every
\* request let through is in the list.
C28_ThreadsKeepTheLimit ==
  /\ Len(accepted) <= RATE_LIMIT_REQUESTS
  /\ Len(request_timestamps) >= Len(accepted)

\* the response of the request handled last is the 429 of the rate limiter
Refused == resp = RateLimitExceeded

\* a request has been let through and answered
Served == resp # NoResponse /\ req.admitted

\* C29: a request refused by the rate limiter leaves the timestamps that
\* count as they were, so that refusals do not prolong the refusal; a request
\* that finds fewer than 10 timestamps younger than 60 seconds is let
\* through; and while time goes on and the client keeps sending requests, a
\* refusal is followed, some time later, by a request that is let through.
C29_RefusalIsTemporary ==
  /\ [][ (RequestHandled /\ Refused') =>
           young(request_timestamps') = young(request_timestamps) ]_vars
  /\ [][ (RequestHandled /\ Len(young(request_timestamps)) < RATE_LIMIT_REQUESTS) =>
           Served' ]_vars
  /\ (Refused ~> Served)

\* a request is refused half a minute after the tenth one was let through:
\* the ten timestamps are all there are, the youngest as old as that
C29_Witness ==
  /\ Refused
  /\ Len(accepted) = RATE_LIMIT_REQUESTS
  /\ accepted[RATE_LIMIT_REQUESTS] = TickSeconds
  /\ young(request_timestamps) = accepted

\* the keys of the requesting session, before or now, other than the key of
\* the request's topic
OtherKeys ==
  (DOMAIN req.before \cup DOMAIN session[req.session])
    \ {session_key(AskedTopic)}

\* C30: a main-topic request and a follow-up leave every conversation the
\* session holds for a topic other than theirs as it was: none is removed,
\* none is added, none is changed.
C30_OtherTopicsUntouched ==
  (IsStartTopic \/ IsFollowup) =>
    \A k \in OtherKeys :
      /\ k \in DOMAIN req.before
      /\ k \in DOMAIN session[req.session]
      /\ session[req.session][k] = req.before[k]

\* a topic is started again by a client whose session holds a conversation
\* on it and one on another topic: the first is dropped, the other stays
C30_Witness ==
  /\ IsStartTopic
  /\ ConversationBefore # <<>>
  /\ ConversationNow = <<>>
  /\ OtherKeys # {}
  /\ \A k \in OtherKeys : session[req.session][k] # <<>>


(***************************************************************************)
(* The search history                                                      *)
(***************************************************************************)
\* the topics of the rows of the table
topics_in(rows) == {rows[i].topic : i \in DOMAIN rows}

\* C31: whatever topics have been posted, and however often, the table
\* search_history holds at most 10 rows and no two of its rows bear the same
\* topic.
C31_HistoryBoundedAndUnique ==
  /\ Len(search_history) <= HISTORY_LIMIT
  /\ \A i, j \in DOMAIN search_history :
       search_history[i].topic = search_history[j].topic => i = j

\* the eleventh topic has just been added to a table that was full, and the
\* first topic, posted again meanwhile, is still in it
C31_Witness ==
  /\ IsStartTopic
  /\ AskedTopic = HistoryTopic(HISTORY_LIMIT + 1)
  /\ Len(search_history) = HISTORY_LIMIT
  /\ HistoryTopic(1) \in topics_in(search_history)
  /\ HistoryTopic(2) \notin topics_in(search_history)


\* a topic has been posted and added to the search history
TopicAdded == IsStartTopic /\ Len(AskedTopic) >= 2

\* the topic added is in the table
AddedIsPresent == TopicAdded => AskedTopic \in topics_in(search_history)

\* the topic added is the first of the recent searches of the page
AddedIsFirst ==
  TopicAdded => /\ resp.recent_searches # <<>>
                /\ resp.recent_searches[1] = AskedTopic

\* the rows a request removes for good are rows no younger than any row it
\* keeps
DroppedAreOldest ==
  RequestHandled =>
    \A i, j \in DOMAIN search_history :
      ( /\ search_history[i].topic \notin topics_in(search_history')
        /\ search_history[j].topic \in topics_in(search_history') )
      => search_history[i].timestamp <= search_history[j].timestamp

\* C32: once a request has added topic T to the search history, T is in the
\* table and is the first of the recent searches shown, also when the table
\* was full and when other topics were added within the same second, and the
\* rows dropped are the oldest ones.
C32_AddedTopicComesFirst ==
  /\ [](AddedIsPresent /\ AddedIsFirst)
  /\ [][DroppedAreOldest]_vars


\* neither the first nor the last character of s is whitespace
Trimmed(s) == s = <<>> \/ (s[1] \notin Whitespace /\ s[Len(s)] \notin Whitespace)

\* sanitizing s a second time changes neither the string nor the key of its
\* conversation
SanitizedOnce(s) ==
  /\ sanitize_input(sanitize_input(s)) = sanitize_input(s)
  /\ Trimmed(sanitize_input(s))
  /\ session_key(sanitize_input(sanitize_input(s))) = session_key(sanitize_input(s))

\* C33: sanitize_input is idempotent: the topic and the question of every
\* request handled, sanitized a second time, are what they were after the
\* first time, they neither begin nor end with whitespace, and the topic
\* sanitized twice has the conversation key of the topic sanitized once.
C33_SanitizeIsIdempotent ==
  Handled /\ req.request.method = "POST" =>
    SanitizedOnce(RawTopic) /\ SanitizedOnce(RawQuestion)

====
